---- MODULE Spec2Model ----
(***************************************************************************)
(* Model of the module supervisor of package common (src/modules.go):      *)
(* ModuleServer with its registry, LoadConfig, the Start/Stop fan-out over *)
(* a JobPool (src/file_storage.go, second file of that listing),           *)
(* CallModule, RestartModule and Terminate.                                *)
(*                                                                         *)
(* Modules are implementations of the IModule interface; they are not part *)
(* of the package.  Their Start/Stop/LoadConfig/DataHandler calls are      *)
(* modelled as calls with a nondeterministic outcome, and their started    *)
(* flag follows the lifecycle contract of the specification.               *)
(*                                                                         *)
(* Error values are modelled by their message, a sequence of tokens; the   *)
(* nil error is the empty sequence.  String concatenation is \o.           *)
(***************************************************************************)
EXTENDS Integers, Sequences, FiniteSets, TLC

\* ---------------------------------------------------------------- bounds
\* module identifiers that configurations may name
Ids == {"A", "B"}
\* the order in which the initial registry of Spec was loaded
IdSeq == <<"A", "B">>
\* module instances the factory may create during one behaviour
MaxInst == 3
MaxCPU == 3
MaxQueue == 2
MaxJobs == 3
MaxCap == 2
MaxItems == 2
MaxRuns == 2
\* longest configuration list handed to LoadConfig
MaxCfgLen == 2
\* runtime.NumCPU() of the host
NumCPU == 3

Inst == 1..MaxInst
\* the nil IModule
NoModule == 0
\* the nil error
Nil == << >>

\* ---------------------------------------------------------------- messages
ErrEmptyConfig == <<"there are no any modules in config">>
ErrCreation(id, e) == <<"creation module ", id, " failed, ">> \o e
ErrLoading(id, e) == <<"loading config for module ", id, " failed, ">> \o e
ErrNilModule(id) == <<"module ", id, " is nil">>
ErrAlreadyStarted(id) == <<"module ", id, " already started">>
ErrAlreadyStopped(id) == <<"module ", id, " already stopped">>
ErrNotFound(id) == <<"module ", id, " not found">>
ErrNotStarted(id) == <<"module ", id, " is not started">>
ErrStopped == <<"tasks executor stopped">>
ErrQueueFull == <<"execute ", "task", " task failed, tasks queue is full">>

\* whether a message mentions the identifier id
Names(msg, id) == \E k \in DOMAIN msg : msg[k] = id

\* errors an IModule implementation or the factory may return: the text is
\* the implementation's own and may or may not mention the module's id
ModuleErrs(id) == { <<"failed">>, <<id, " failed">> }
FactoryErrs(id) == { <<"unknown type">> }
HandlerErrs == { <<"handler failed">> }
Msgs == {"m1", "m2"}

\* a descriptor of the configuration list (ModuleConfig): id and disable flag
Descriptors == [id : Ids, disable : BOOLEAN]
CfgLists == UNION { [1..n -> Descriptors] : n \in 0..MaxCfgLen }

VARIABLES
    modules,      \* ModuleServer.modules: the registry, a map id -> instance
    started,      \* IModule.IsStarted() of every instance
    configured,   \* instances whose LoadConfig(params) has succeeded
    lastOk,       \* the last successful lifecycle call of every instance
    nextInst,     \* the next instance the factory creates
    proc,         \* the hosting process: running, fatal (log.Fatal) or panic
    mu,           \* ModuleServer.mu
    ctxCancelled, \* whether ModuleServer.ctx is cancelled
    load,         \* the caller of LoadConfig
    fan,          \* the caller of Start, Stop or Terminate
    jobs,         \* the jobs of the fan-out, one per module id
    jobQueue,     \* JobPool.JobQueue
    errorsQueue,  \* the errorsQueue channel of Start/Stop
    wg,           \* JobPool.wg
    call,         \* the caller of CallModule
    handler,      \* DataHandler invocations as seen by the module
    restart,      \* the caller of RestartModule
    watch,        \* armed watchdogs (goroutines sleeping on timeout); op names
                  \* the operation that started the goroutine
    ncpu,         \* runtime.NumCPU() as seen by NewJobPool
    workerPool,   \* dispatcher.workerPool: the workers registered as free
    worker,       \* the worker goroutines of a JobPool
    dispatcher,   \* the dispatcher goroutine of a JobPool
    job,          \* the jobs handed to JobPool.AddJob
    client,       \* the goroutine that uses a JobPool
    executor,     \* a TasksExecutor: its channels and its terminate flag
    tasks,        \* TasksExecutor.tasks: the queued work items
    cycle,        \* the executionCycle goroutines of the executor
    task,         \* the work items handed to the executor
    ran,          \* the work items in the order in which they were entered
    submitter,    \* the goroutine that submits work items
    controller,   \* the goroutine that runs and shuts down the executor
    mobj,         \* the managedObject of an asyncTask or a repeatableTask
    callers,      \* the goroutines that call Break and BreakAndWait on it
    body,         \* the goroutine started by Execute of the task
    monitor       \* the monitoringCycle goroutine of the executor

vars == <<modules, started, configured, lastOk, nextInst, proc, mu, ctxCancelled,
          load, fan, jobs, jobQueue, errorsQueue, wg, call, handler, restart, watch,
          ncpu, workerPool, worker, dispatcher, job, client,
          executor, tasks, cycle, task, ran, submitter, controller,
          mobj, callers, body, monitor>>

registryVars == <<modules, nextInst, configured>>
moduleVars == <<started, lastOk>>
loadVars == <<load>>
fanVars == <<fan, jobs, jobQueue, errorsQueue, wg, mu, ctxCancelled>>
callVars == <<call, handler>>
restartVars == <<restart, watch>>
poolVars == <<ncpu, workerPool, worker, dispatcher, job, client>>
execVars == <<executor, tasks, cycle, task, ran, submitter, controller>>
taskVars == <<mobj, callers, body, monitor>>

Range(f) == { f[x] : x \in DOMAIN f }

\* ---------------------------------------------------------------- LoadConfig
LoadIdle == [pc |-> "idle", cfg |-> << >>, i |-> 0, list |-> << >>,
             made |-> << >>, calls |-> 0, reg0 |-> << >>, failedAt |-> 0, err |-> Nil]

\* modules.go:91-94: the check is on the raw list length
EmptyConfigByEnabled(cfg) == \A k \in DOMAIN cfg : cfg[k].disable
EmptyConfig(cfg) == Len(cfg) = 0

\* modules.go:108: ptr.modules[cfg.ID] = newModule
RegisterFirstWins(reg, id, inst) ==
    IF id \in DOMAIN reg THEN reg
    ELSE [x \in DOMAIN reg \cup {id} |-> IF x = id THEN inst ELSE reg[x]]
Register(reg, id, inst) ==
    [x \in DOMAIN reg \cup {id} |-> IF x = id THEN inst ELSE reg[x]]

\* the registry after `module, ok := ptr.modules[id]` (modules.go:221, 236):
\* the read of a Go map adds no entry for a missing key
LookupInserts(reg, id) ==
    IF id \in DOMAIN reg THEN reg ELSE Register(reg, id, NoModule)
Lookup(reg, id) == reg

EnabledCount(cfg) == Cardinality({k \in DOMAIN cfg : ~cfg[k].disable})

\* LoadConfig is called with a configuration list (modules.go:89-96)
LoadConfigBegin(cfg) ==
    /\ proc = "running"
    /\ load.pc \in {"idle", "done"}
    /\ nextInst + EnabledCount(cfg) <= MaxInst + 1
    /\ load' = IF EmptyConfig(cfg)
               THEN [LoadIdle EXCEPT !.pc = "done", !.cfg = cfg, !.reg0 = modules,
                                     !.err = ErrEmptyConfig]
               ELSE [LoadIdle EXCEPT !.pc = "loop", !.cfg = cfg, !.i = 1,
                                     !.reg0 = modules,
                                     !.made = [k \in DOMAIN cfg |-> NoModule]]
    /\ UNCHANGED <<poolVars, execVars, taskVars, registryVars, moduleVars, proc, fanVars, callVars, restartVars>>

\* what the unlocked map write of modules.go:108 does to a range over
\* ptr.modules that is under way in Start() or Stop() (modules.go:126, 164):
\* a data race. A new key is produced by the range or skipped, or the runtime
\* detects the concurrent map write and aborts the process.
RangeSeesWrite(id) ==
    IF fan.pc = "add"
    THEN \/ fan' = fan /\ proc' = proc
         \/ /\ id \notin DOMAIN modules
            /\ fan' = [fan EXCEPT !.todo = @ \cup {id}]
            /\ proc' = proc
         \/ fan' = fan /\ proc' = "panic"
    ELSE fan' = fan /\ proc' = proc

\* one iteration of the loop up to the registration (modules.go:98-108), or
\* the return after the last descriptor (modules.go:117)
LoadConfigCreate ==
    /\ proc = "running"
    /\ load.pc = "loop"
    /\ IF load.i > Len(load.cfg)
       THEN /\ load' = [load EXCEPT !.pc = "done"]
            /\ UNCHANGED <<registryVars, fan, proc>>
       ELSE LET d == load.cfg[load.i] IN
            IF d.disable
            THEN /\ load' = [load EXCEPT !.i = @ + 1]
                 /\ UNCHANGED <<registryVars, fan, proc>>
            ELSE \E e \in {Nil} \cup FactoryErrs(d.id) :
                 IF e # Nil
                 THEN /\ load' = [load EXCEPT !.pc = "done", !.list = << >>,
                                              !.calls = @ + 1, !.failedAt = load.i,
                                              !.err = ErrCreation(d.id, e)]
                      /\ UNCHANGED <<registryVars, fan, proc>>
                 ELSE /\ modules' = Register(modules, d.id, nextInst)
                      /\ nextInst' = nextInst + 1
                      /\ load' = [load EXCEPT !.pc = "configure", !.calls = @ + 1,
                                              !.made[load.i] = nextInst]
                      /\ RangeSeesWrite(d.id)
                      /\ UNCHANGED configured
    /\ UNCHANGED <<poolVars, execVars, taskVars, moduleVars, jobs, jobQueue, errorsQueue, wg, mu, ctxCancelled,
                   callVars, restartVars>>

\* the rest of the iteration: newModule.LoadConfig(cfg.Params) (modules.go:110-114)
LoadConfigConfigure ==
    /\ proc = "running"
    /\ load.pc = "configure"
    /\ LET d == load.cfg[load.i] IN
       \E e \in {Nil} \cup ModuleErrs(d.id) :
       IF e # Nil
       THEN /\ load' = [load EXCEPT !.pc = "done", !.list = << >>,
                                    !.failedAt = load.i, !.err = ErrLoading(d.id, e)]
            /\ UNCHANGED configured
       ELSE /\ configured' = configured \cup {load.made[load.i]}
            /\ load' = [load EXCEPT !.pc = "loop", !.i = @ + 1,
                                    !.list = Append(@, d.id)]
    /\ UNCHANGED <<poolVars, execVars, taskVars, modules, nextInst, moduleVars, proc, fanVars, callVars, restartVars>>

FanIdle == [pc |-> "idle", kind |-> "none", cap |-> 0, workers |-> 0,
            todo |-> {}, res |-> Nil]
NoJob == [st |-> "none", inst |-> NoModule, res |-> Nil, runs |-> 0]
CallIdle == [pc |-> "idle", id |-> "", inst |-> NoModule, msg |-> "", res |-> Nil]
HandlerIdle == [calls |-> 0, inst |-> NoModule, msg |-> "", ret |-> Nil]
\* late: the timeout, counted from the call, ran out while the call was still
\* inside module.Stop() or module.Start()
RestartIdle ==
    [pc |-> "idle", id |-> "", inst |-> NoModule, calls |-> << >>, late |-> FALSE]

\* no JobPool of its own is in use next to the supervisor
DispatcherIdle == [pc |-> "select", job |-> 0, i |-> 0]
ClientIdle ==
    [pc |-> "idle", cap |-> 0, numWorkers |-> 0, added |-> 0, barrier |-> FALSE,
     ret |-> "none", running0 |-> {}]
NoPool ==
    /\ ncpu = NumCPU
    /\ workerPool = << >>
    /\ worker = << >>
    /\ dispatcher = DispatcherIdle
    /\ job = << >>
    /\ client = ClientIdle

\* NewTasksExecutor(queueSize, nil) (async_task.go:133-139, 20-29): the
\* channels made by newManagedObject are generation 0, every resetChans makes
\* the next generation; breakChan tells whether the present breakChan is
\* closed, finishChan holds the generations whose finishChan is closed
NewExecutor(queueSize) ==
    [cap |-> queueSize, gen |-> 0, breakChan |-> FALSE, finishChan |-> {},
     terminate |-> FALSE]
SubmitterIdle == [pc |-> "idle", op |-> "none", n |-> 0, ret |-> Nil, ctxDone |-> FALSE]
ControllerIdle == [pc |-> "idle", gen |-> 0, queued |-> << >>]

\* the goroutines that call Break and BreakAndWait on one task
Callers == {1, 2}
\* calls each of them makes
MaxCalls == 2

\* newManagedObject (async_task.go:20-29): two open channels; closes counts
\* the close(ptr.breakChan) calls made
NewManagedObject == [breakChan |-> FALSE, finishChan |-> FALSE, closes |-> 0]
CallerIdle == [pc |-> "idle", op |-> "none", calls |-> 0, returned |-> 0]
NoBody == [kind |-> "none", pc |-> "none", timerC |-> FALSE, fired |-> FALSE]
NoMonitor == [pc |-> "none", used |-> 0]

\* no task and no monitoring are in use
NoTask ==
    /\ mobj = NewManagedObject
    /\ callers = [c \in Callers |-> CallerIdle]
    /\ body = NoBody
    /\ monitor = NoMonitor

\* no TasksExecutor is in use next to the supervisor
NoExec ==
    /\ executor = NewExecutor(0)
    /\ tasks = << >>
    /\ cycle = << >>
    /\ task = << >>
    /\ ran = << >>
    /\ submitter = SubmitterIdle
    /\ controller = ControllerIdle

\* NewModuleServer (modules.go:68-79): an empty registry, a live context
InitLoad ==
    /\ modules = << >>
    /\ started = [x \in Inst |-> FALSE]
    /\ configured = {}
    /\ lastOk = [x \in Inst |-> "none"]
    /\ nextInst = 1
    /\ proc = "running"
    /\ mu = FALSE
    /\ ctxCancelled = FALSE
    /\ load = LoadIdle
    /\ fan = FanIdle
    /\ jobs = [id \in Ids |-> NoJob]
    /\ jobQueue = << >>
    /\ errorsQueue = << >>
    /\ wg = 0
    /\ call = CallIdle
    /\ handler = HandlerIdle
    /\ restart = RestartIdle
    /\ watch = {}
    /\ NoPool
    /\ NoExec
    /\ NoTask

NextLoad ==
    \/ \E cfg \in CfgLists : LoadConfigBegin(cfg)
    \/ LoadConfigCreate
    \/ LoadConfigConfigure

\* LoadConfig calls on a freshly constructed supervisor
SpecLoad == InitLoad /\ [][NextLoad]_vars


\* ---------------------------------------------------------------- modules
\* IModule.Start() returned e on instance x: a successful start sets the flag
ModuleStartReturnsAlways(x, e) ==
    /\ started' = [started EXCEPT ![x] = TRUE]
    /\ lastOk' = [lastOk EXCEPT ![x] = IF e = Nil THEN "start" ELSE @]
ModuleStartReturns(x, e) ==
    IF e = Nil
    THEN /\ started' = [started EXCEPT ![x] = TRUE]
         /\ lastOk' = [lastOk EXCEPT ![x] = "start"]
    ELSE UNCHANGED moduleVars

\* IModule.Stop() returned e on instance x: a successful stop clears the flag
ModuleStopReturns(x, e) ==
    IF e = Nil
    THEN /\ started' = [started EXCEPT ![x] = FALSE]
         /\ lastOk' = [lastOk EXCEPT ![x] = "stop"]
    ELSE UNCHANGED moduleVars

\* ---------------------------------------------------------------- JobPool
\* NewJobPool (file_storage.go:199-207): the number of workers
NumWorkersNoFloor(cpus, jobQueueLen) ==
    IF jobQueueLen < cpus - 1 THEN jobQueueLen ELSE cpus - 1
NumWorkersOn(cpus, jobQueueLen) ==
    LET n == IF jobQueueLen < cpus - 1 THEN jobQueueLen ELSE cpus - 1
    IN  IF n = 0 THEN 1 ELSE n
NumWorkers(jobQueueLen) == NumWorkersOn(NumCPU, jobQueueLen)

\* workers that hold a job (the others have registered in workerPool)
Busy ==
    Cardinality({id \in Ids : jobs[id].st \in {"run", "incall", "terminate", "blocked"}})

\* JobPool.WaitAll (file_storage.go:229-231): wg.Wait()
WaitAllFailFast == wg = 0 \/ \E k \in DOMAIN errorsQueue : errorsQueue[k] # Nil
WaitAllQueueEmpty == jobQueue = << >>
WaitAllReturns == wg = 0

\* ---------------------------------------------------------------- Start, Stop
\* the error list built from errorsQueue (modules.go:140-154)
RECURSIVE ErrList(_)
ErrList(q) ==
    IF q = << >> THEN << >>
    ELSE LET errList == ErrList(SubSeq(q, 1, Len(q) - 1))
             err == q[Len(q)]
         IN  IF err = Nil THEN errList
             ELSE (IF Len(errList) > 0 THEN errList \o <<", ">> ELSE errList)
                  \o <<"[">> \o err \o <<"]">>

\* startModule up to the call of module.Start() (modules.go:196-204): the
\* error it returns without calling the module, or Nil when it goes on to call
StartModuleCheckNone(id, x) ==
    IF x = NoModule THEN ErrNilModule(id) ELSE Nil
StartModuleCheck(id, x) ==
    IF x = NoModule THEN ErrNilModule(id)
    ELSE IF started[x] THEN ErrAlreadyStarted(id)
    ELSE Nil

\* stopModule up to the call of module.Stop() (modules.go:208-216)
StopModuleCheck(id, x) ==
    IF x = NoModule THEN ErrNilModule(id)
    ELSE IF ~started[x] THEN ErrAlreadyStopped(id)
    ELSE Nil

\* Stop() begins with ptr.cancelCtx(), and Terminate() calls Stop()
\* (modules.go:158, 262)
CancelsCtxOnTerminate(kind) == kind = "terminate"
CancelsCtx(kind) == kind # "start"

\* Start(), Stop() and Terminate() up to mu.Lock(): the pool and the errors
\* channel are sized by len(ptr.modules) read without the lock
\* (modules.go:121-122, 158-161, 260-262)
FanBegin(kind) ==
    /\ proc = "running"
    /\ fan.pc \in {"idle", "done"}
    /\ LET n == Cardinality(DOMAIN modules) IN
       fan' = [FanIdle EXCEPT !.pc = "lock", !.kind = kind, !.cap = n,
                              !.workers = NumWorkers(n)]
    /\ ctxCancelled' = (ctxCancelled \/ CancelsCtx(kind))
    /\ jobs' = [id \in Ids |-> NoJob]
    /\ jobQueue' = << >>
    /\ errorsQueue' = << >>
    /\ wg' = 0
    /\ UNCHANGED <<poolVars, execVars, taskVars, registryVars, moduleVars, proc, mu, loadVars, callVars, restartVars>>

Start == FanBegin("start")
Stop == FanBegin("stop")
Terminate == FanBegin("terminate")

\* ptr.mu.Lock() and the start of the range over the registry (modules.go:124-126)
FanLock ==
    /\ proc = "running"
    /\ fan.pc = "lock"
    /\ ~mu
    /\ mu' = TRUE
    /\ fan' = [fan EXCEPT !.pc = IF DOMAIN modules = {} THEN "wait" ELSE "add",
                          !.todo = DOMAIN modules]
    /\ UNCHANGED <<poolVars, execVars, taskVars, registryVars, moduleVars, proc, ctxCancelled, jobs, jobQueue,
                   errorsQueue, wg, loadVars, callVars, restartVars>>

\* one iteration of the range: pool.AddJob (modules.go:126-132,
\* file_storage.go:220-226); the send blocks while JobQueue is full. jobQueue
\* holds the jobs in the channel and the one the dispatcher has received and
\* keeps until a worker is free (file_storage.go:152-153)
FanAddJob(id) ==
    /\ proc = "running"
    /\ fan.pc = "add"
    /\ id \in fan.todo
    /\ Len(jobQueue) < fan.cap + 1
    /\ wg' = wg + 1
    /\ jobQueue' = Append(jobQueue, id)
    /\ jobs' = [jobs EXCEPT ![id] = [NoJob EXCEPT !.st = "queued", !.inst = modules[id]]]
    /\ fan' = [fan EXCEPT !.todo = @ \ {id},
                          !.pc = IF fan.todo = {id} THEN "wait" ELSE "add"]
    /\ UNCHANGED <<poolVars, execVars, taskVars, registryVars, moduleVars, proc, mu, ctxCancelled, errorsQueue,
                   loadVars, callVars, restartVars>>

\* dispatcher.dispatch, one iteration (file_storage.go:152-154): the oldest
\* queued job goes to a worker that registered itself idle
Dispatch ==
    /\ proc = "running"
    /\ jobQueue # << >>
    /\ Busy < fan.workers
    /\ jobs' = [jobs EXCEPT ![Head(jobQueue)].st = "run"]
    /\ jobQueue' = Tail(jobQueue)
    /\ UNCHANGED <<poolVars, execVars, taskVars, registryVars, moduleVars, proc, mu, ctxCancelled, fan, errorsQueue,
                   wg, loadVars, callVars, restartVars>>

\* the job sends its result to errorsQueue and ends with wg.Done()
\* (modules.go:129, file_storage.go:223); the send blocks on a full channel
JobResult(id, e) ==
    IF Len(errorsQueue) < fan.cap
    THEN /\ errorsQueue' = Append(errorsQueue, e)
         /\ wg' = wg - 1
         /\ jobs' = [jobs EXCEPT ![id].st = "done", ![id].res = e,
                                 ![id].runs = @ + 1]
    ELSE /\ jobs' = [jobs EXCEPT ![id].st = "blocked", ![id].res = e,
                                 ![id].runs = @ + 1]
         /\ UNCHANGED <<errorsQueue, wg>>

\* a worker runs its job up to the module call: startModule or stopModule
\* returns an error of its own, or calls module.Start() / module.Stop().
\* The IsStarted() check and the call are one step; the call stays in flight
\* until JobCallReturns, and a module's flag changes only when a call returns.
JobCheck(id) ==
    /\ proc = "running"
    /\ jobs[id].st = "run"
    /\ LET e == IF fan.kind = "start" THEN StartModuleCheck(id, jobs[id].inst)
                ELSE StopModuleCheck(id, jobs[id].inst)
       IN  IF e # Nil THEN JobResult(id, e)
           ELSE /\ jobs' = [jobs EXCEPT ![id].st = "incall"]
                /\ UNCHANGED <<errorsQueue, wg>>
    /\ UNCHANGED <<poolVars, execVars, taskVars, registryVars, moduleVars, proc, mu, ctxCancelled, fan, jobQueue,
                   loadVars, callVars, restartVars>>

\* module.Start() / module.Stop() returns to the job (modules.go:205, 217)
JobCallReturns(id) ==
    /\ proc = "running"
    /\ jobs[id].st = "incall"
    /\ \E e \in {Nil} \cup ModuleErrs(id) :
        /\ IF fan.kind = "start" THEN ModuleStartReturns(jobs[id].inst, e)
           ELSE ModuleStopReturns(jobs[id].inst, e)
        /\ JobResult(id, e)
    /\ UNCHANGED <<poolVars, execVars, taskVars, registryVars, proc, mu, ctxCancelled, fan, jobQueue,
                   loadVars, callVars, restartVars>>

\* the module, inside the Start() / Stop() that a job called, calls
\* IServer.Terminate: Terminate logs and calls ptr.Stop(), which cancels the
\* context, builds its pool and arrives at ptr.mu.Lock() (modules.go:260-262,
\* 158-163)
JobCallsTerminate(id) ==
    /\ proc = "running"
    /\ jobs[id].st = "incall"
    /\ jobs' = [jobs EXCEPT ![id].st = "terminate"]
    /\ ctxCancelled' = TRUE
    /\ UNCHANGED <<poolVars, execVars, taskVars, registryVars, moduleVars, proc, mu, fan, jobQueue, errorsQueue, wg,
                   loadVars, callVars, restartVars>>

\* the ptr.mu.Lock() of the Stop() inside that Terminate can be taken
\* (modules.go:163)
TerminateCanLock(id) == jobs[id].st = "terminate" /\ ~mu

\* pool.WaitAll(), pool.Release(), mu.Unlock(), the error list and the return
\* (modules.go:133-154); Terminate then ends the process on either branch
\* (modules.go:262-267)
\* whether the process ends when the fan-out of this kind has returned res
FanFatalOnError(kind, res) == kind = "terminate" \/ res # Nil
FanFatalOnlyOnError(kind, res) == kind = "terminate" /\ res # Nil
FanFatal(kind, res) == kind = "terminate"

FanReturn ==
    /\ proc = "running"
    /\ fan.pc = "wait"
    /\ WaitAllReturns
    /\ mu' = FALSE
    /\ LET res == ErrList(errorsQueue) IN
        /\ fan' = [fan EXCEPT !.pc = "done", !.res = res]
        /\ proc' = IF FanFatal(fan.kind, res) THEN "fatal" ELSE proc
    /\ UNCHANGED <<poolVars, execVars, taskVars, registryVars, moduleVars, ctxCancelled, jobs, jobQueue, errorsQueue,
                   wg, loadVars, callVars, restartVars>>

\* ---------------------------------------------------------------- CallModule
\* CallModule up to the call of DataHandler (modules.go:221-228)
CallModuleCheckNoStarted(id) ==
    IF id \notin DOMAIN modules THEN ErrNotFound(id) ELSE Nil
CallModuleCheck(id) ==
    IF id \notin DOMAIN modules THEN ErrNotFound(id)
    ELSE IF ~started[modules[id]] THEN ErrNotStarted(id)
    ELSE Nil

CallModuleBegin(id, msg) ==
    /\ proc = "running"
    /\ call.pc \in {"idle", "done"}
    /\ LET e == CallModuleCheck(id) IN
       call' = IF e # Nil
               THEN [CallIdle EXCEPT !.pc = "done", !.id = id, !.msg = msg, !.res = e]
               ELSE [CallIdle EXCEPT !.pc = "forward", !.id = id, !.msg = msg,
                                     !.inst = modules[id]]
    /\ handler' = HandlerIdle
    /\ modules' = Lookup(modules, id)
    /\ UNCHANGED <<poolVars, execVars, taskVars, nextInst, configured, moduleVars, proc, fanVars, loadVars, restartVars>>

\* what CallModule returns for the handler's result r (modules.go:230)
CallResult(r) == r

\* module.DataHandler(module.Ctx(), msgType, data) and the return (modules.go:230)
CallModuleForward ==
    /\ proc = "running"
    /\ call.pc = "forward"
    /\ \E r \in {Nil} \cup HandlerErrs :
        /\ handler' = [calls |-> handler.calls + 1, inst |-> call.inst,
                       msg |-> call.msg, ret |-> r]
        /\ call' = [call EXCEPT !.pc = "done", !.res = CallResult(r)]
    /\ UNCHANGED <<poolVars, execVars, taskVars, registryVars, moduleVars, proc, fanVars, loadVars, restartVars>>

\* ---------------------------------------------------------------- RestartModule
\* the lookup, the log lines and the call of module.Stop() (modules.go:234-241):
\* an unknown id is only logged, and module.Stop() on the nil interface panics
RestartModuleBegin(id) ==
    /\ proc = "running"
    /\ restart.pc \in {"idle", "done"}
    /\ IF id \in DOMAIN modules
       THEN /\ restart' = [pc |-> "stop", id |-> id, inst |-> modules[id],
                            calls |-> <<"stop">>, late |-> FALSE]
            /\ UNCHANGED proc
       ELSE /\ restart' = [pc |-> "done", id |-> id, inst |-> NoModule,
                            calls |-> << >>, late |-> FALSE]
            /\ proc' = "panic"
    /\ modules' = Lookup(modules, id)
    /\ UNCHANGED <<poolVars, execVars, taskVars, nextInst, configured, moduleVars, fanVars, loadVars, callVars, watch>>

\* whether RestartModule ends the process when module.Stop() returned e
\* (modules.go:241-244)
RestartStopFatalNever(e) == FALSE
RestartStopFatal(e) == e # Nil

\* module.Stop() returns; on success module.Start() is called (modules.go:241-246)
RestartStopReturns ==
    /\ proc = "running"
    /\ restart.pc = "stop"
    /\ \E e \in {Nil} \cup ModuleErrs(restart.id) :
        /\ ModuleStopReturns(restart.inst, e)
        /\ IF RestartStopFatal(e)
           THEN /\ proc' = "fatal"
                /\ restart' = [restart EXCEPT !.pc = "done"]
           ELSE /\ restart' = [restart EXCEPT !.pc = "start",
                                              !.calls = Append(@, "start")]
                /\ UNCHANGED proc
    /\ UNCHANGED <<poolVars, execVars, taskVars, registryVars, fanVars, loadVars, callVars, watch>>

\* module.Start() returns; on success the watchdog goroutine is started
\* (modules.go:246-256)
RestartStartReturns ==
    /\ proc = "running"
    /\ restart.pc = "start"
    /\ \E e \in {Nil} \cup ModuleErrs(restart.id) :
        /\ ModuleStartReturns(restart.inst, e)
        /\ restart' = [restart EXCEPT !.pc = "done"]
        /\ IF e # Nil
           THEN /\ proc' = "fatal"
                /\ UNCHANGED watch
           ELSE /\ watch' = watch \cup {[op |-> "restart", inst |-> restart.inst,
                                          late |-> restart.late]}
                /\ UNCHANGED proc
    /\ UNCHANGED <<poolVars, execVars, taskVars, registryVars, fanVars, loadVars, callVars>>

\* the watchdog w wakes, timeout after it was started (modules.go:251-256)
RestartWatchdog(w) ==
    /\ proc = "running"
    /\ w \in watch
    /\ watch' = watch \ {w}
    /\ proc' = IF ~started[w.inst] THEN "fatal" ELSE proc
    /\ UNCHANGED <<poolVars, execVars, taskVars, registryVars, moduleVars, fanVars, loadVars, callVars, restart>>

\* the moment timeout after RestartModule was called, while the call is still
\* inside module.Stop() or module.Start(): no code runs at this moment, the
\* Sleep of modules.go:252 begins only after module.Start() has returned
RestartDeadline ==
    /\ proc = "running"
    /\ restart.pc \in {"stop", "start"}
    /\ ~restart.late
    /\ restart' = [restart EXCEPT !.late = TRUE]
    /\ UNCHANGED <<poolVars, execVars, taskVars, registryVars, moduleVars, proc, fanVars, loadVars, callVars, watch>>

\* ---------------------------------------------------------------- Spec
\* the registry after LoadConfig succeeded on the first n descriptors of
\* IdSeq, all enabled
RECURSIVE LoadedRegistry(_)
LoadedRegistry(n) ==
    IF n = 0 THEN << >> ELSE Register(LoadedRegistry(n - 1), IdSeq[n], n)

Init ==
    /\ \E n \in 0..Len(IdSeq) :
        /\ modules = LoadedRegistry(n)
        /\ configured = 1..n
        /\ nextInst = n + 1
    /\ started = [x \in Inst |-> FALSE]
    /\ lastOk = [x \in Inst |-> "none"]
    /\ proc = "running"
    /\ mu = FALSE
    /\ ctxCancelled = FALSE
    /\ load = LoadIdle
    /\ fan = FanIdle
    /\ jobs = [id \in Ids |-> NoJob]
    /\ jobQueue = << >>
    /\ errorsQueue = << >>
    /\ wg = 0
    /\ call = CallIdle
    /\ handler = HandlerIdle
    /\ restart = RestartIdle
    /\ watch = {}
    /\ NoPool
    /\ NoExec
    /\ NoTask

Next ==
    \/ Start
    \/ Stop
    \/ Terminate
    \/ FanLock
    \/ \E id \in Ids : FanAddJob(id)
    \/ Dispatch
    \/ \E id \in Ids : JobCheck(id)
    \/ \E id \in Ids : JobCallReturns(id)
    \/ FanReturn
    \/ \E id \in Ids, msg \in Msgs : CallModuleBegin(id, msg)
    \/ CallModuleForward
    \/ \E id \in Ids : RestartModuleBegin(id)
    \/ RestartStopReturns
    \/ RestartStartReturns
    \/ \E w \in watch : RestartWatchdog(w)

\* the supervisor after a successful load, driven by concurrent callers
Spec == Init /\ [][Next]_vars

\* RestartModule calls with the passing of their timeouts made visible,
\* next to Stop() calls of another caller
NextRestart ==
    \/ Stop
    \/ FanLock
    \/ \E id \in Ids : FanAddJob(id)
    \/ Dispatch
    \/ \E id \in Ids : JobCheck(id)
    \/ \E id \in Ids : JobCallReturns(id)
    \/ FanReturn
    \/ \E id \in Ids : RestartModuleBegin(id)
    \/ RestartStopReturns
    \/ RestartStartReturns
    \/ RestartDeadline
    \/ \E w \in watch : RestartWatchdog(w)

SpecRestart == Init /\ [][NextRestart]_vars

\* the fan-outs of one caller, with modules that call Terminate from inside
\* their Start() or Stop()
NextTerm ==
    \/ Start
    \/ Stop
    \/ Terminate
    \/ FanLock
    \/ \E id \in Ids : FanAddJob(id)
    \/ Dispatch
    \/ \E id \in Ids : JobCheck(id)
    \/ \E id \in Ids : JobCallReturns(id)
    \/ \E id \in Ids : JobCallsTerminate(id)
    \/ FanReturn

SpecTerm == Init /\ [][NextTerm]_vars

\* LoadConfig calls of one caller, each with one enabled descriptor, next to
\* Start() calls of another
RaceCfgLists == {cfg \in CfgLists : Len(cfg) = 1 /\ ~cfg[1].disable}

NextRace ==
    \/ \E cfg \in RaceCfgLists : LoadConfigBegin(cfg)
    \/ LoadConfigCreate
    \/ LoadConfigConfigure
    \/ Start
    \/ FanLock
    \/ \E id \in Ids : FanAddJob(id)
    \/ Dispatch
    \/ \E id \in Ids : JobCheck(id)
    \/ \E id \in Ids : JobCallReturns(id)
    \/ FanReturn

SpecRace == InitLoad /\ [][NextRace]_vars

\* ---------------------------------------------------------------- a JobPool
\* One JobPool and the goroutine that uses it. jobQueue is the buffer of
\* JobQueue; the job the dispatcher has received is dispatcher.job. Jobs are
\* numbered in the order of their AddJob.
serverVars == <<modules, started, configured, lastOk, nextInst, proc, mu,
                ctxCancelled, load, fan, jobs, errorsQueue, call, handler, restart,
                watch, execVars, taskVars>>

NewJob == [st |-> "new", runs |-> 0, w |-> 0]

\* jobs whose function has been entered
Begun == {j \in DOMAIN job : job[j].st \in {"running", "finished"}}

\* whether the function of a job may return: a plain job whenever it likes, a
\* barrier job once as many jobs have been entered as the pool was sized for
JobMayReturn == ~client.barrier \/ Cardinality(Begun) >= client.cap

\* w.workerPool <- w and the arrival at the select (file_storage.go:121-123)
WorkerRegister(w) ==
    /\ worker[w].pc = "register"
    /\ Len(workerPool) < client.numWorkers
    /\ workerPool' = Append(workerPool, w)
    /\ worker' = [worker EXCEPT ![w].pc = "select"]
    /\ UNCHANGED <<serverVars, jobQueue, wg, ncpu, dispatcher, job, client>>

\* job := <-d.jobQueue (file_storage.go:152)
DispatcherReceive ==
    /\ dispatcher.pc = "select"
    /\ jobQueue # << >>
    /\ dispatcher' = [dispatcher EXCEPT !.pc = "worker", !.job = Head(jobQueue)]
    /\ jobQueue' = Tail(jobQueue)
    /\ UNCHANGED <<serverVars, wg, ncpu, workerPool, worker, job, client>>

\* what <-d.workerPool leaves in the channel (file_storage.go:153, 157)
ReceivedKeep(q) == q
Received(q) == Tail(q)

\* worker := <-d.workerPool; worker.jobChannel <- job, received by the
\* worker's select, which enters the job (file_storage.go:153-154, 124-125)
DispatcherHandOff ==
    /\ dispatcher.pc = "worker"
    /\ workerPool # << >>
    /\ LET w == Head(workerPool)
           j == dispatcher.job
       IN  /\ worker' = [worker EXCEPT ![w] = [pc |-> "job", job |-> j]]
           /\ job' = [job EXCEPT ![j] = [st |-> "running", runs |-> @.runs + 1,
                                         w |-> w]]
    /\ workerPool' = Received(workerPool)
    /\ dispatcher' = [dispatcher EXCEPT !.pc = "select", !.job = 0]
    /\ UNCHANGED <<serverVars, jobQueue, wg, ncpu, client>>

\* the job's function returns and the deferred wg.Done() runs; the worker
\* loops (file_storage.go:222-225, 119-121)
WorkerJobReturns(w) ==
    /\ worker[w].pc = "job"
    /\ JobMayReturn
    /\ job' = [job EXCEPT ![worker[w].job].st = "finished"]
    /\ wg' = wg - 1
    /\ worker' = [worker EXCEPT ![w] = [pc |-> "register", job |-> 0]]
    /\ UNCHANGED <<serverVars, jobQueue, ncpu, workerPool, dispatcher, client>>

\* AddJob: p.wg.Add(1) (file_storage.go:221)
AddJob ==
    /\ client.pc = "idle"
    /\ client.added < MaxJobs
    /\ wg' = wg + 1
    /\ client' = [client EXCEPT !.pc = "send", !.added = @ + 1]
    /\ UNCHANGED <<serverVars, jobQueue, ncpu, workerPool, worker, dispatcher, job>>

\* AddJob: p.JobQueue <- func() {..} (file_storage.go:222-225): into the
\* buffer, or, with nothing buffered and the buffer full, straight to the
\* dispatcher waiting in its select; otherwise the send blocks
AddJobSend ==
    /\ client.pc = "send"
    /\ IF Len(jobQueue) < client.cap
       THEN /\ jobQueue' = Append(jobQueue, client.added)
            /\ UNCHANGED dispatcher
       ELSE /\ client.cap = 0
            /\ dispatcher.pc = "select"
            /\ dispatcher' = [dispatcher EXCEPT !.pc = "worker", !.job = client.added]
            /\ UNCHANGED jobQueue
    /\ job' = [job EXCEPT ![client.added].st = "queued"]
    /\ client' = [client EXCEPT !.pc = "idle", !.ret = "AddJob"]
    /\ UNCHANGED <<serverVars, wg, ncpu, workerPool, worker>>

\* WaitAll is called (file_storage.go:229)
WaitAll ==
    /\ client.pc = "idle"
    /\ client' = [client EXCEPT !.pc = "wait"]
    /\ UNCHANGED <<serverVars, jobQueue, wg, ncpu, workerPool, worker, dispatcher, job>>

\* p.wg.Wait() returns (file_storage.go:230)
WaitAllDone ==
    /\ client.pc = "wait"
    /\ WaitAllReturns
    /\ client' = [client EXCEPT !.pc = "idle", !.ret = "WaitAll"]
    /\ UNCHANGED <<serverVars, jobQueue, wg, ncpu, workerPool, worker, dispatcher, job>>

\* Release is called and arrives at p.dispatcher.stop <- struct{}{}
\* (file_storage.go:234-235); running0 keeps the jobs running at the call
Release ==
    /\ client.pc = "idle"
    /\ client' = [client EXCEPT !.pc = "release",
                                !.running0 = {j \in DOMAIN job : job[j].st = "running"}]
    /\ UNCHANGED <<serverVars, jobQueue, wg, ncpu, workerPool, worker, dispatcher, job>>

\* the dispatcher's select receives the stop (file_storage.go:155, 235)
DispatcherStop ==
    /\ dispatcher.pc = "select"
    /\ client.pc = "release"
    /\ dispatcher' = [dispatcher EXCEPT !.pc = "stopping", !.i = 0]
    /\ client' = [client EXCEPT !.pc = "ack"]
    /\ UNCHANGED <<serverVars, jobQueue, wg, ncpu, workerPool, worker, job>>

\* the end of the stop loop, i < cap(d.workerPool) (file_storage.go:156)
StopLoopDoneAfterOne == dispatcher.i >= 1
StopLoopDone == dispatcher.i = client.numWorkers

\* one round of the stop loop: a free worker is taken, told to stop, and
\* acknowledges and returns (file_storage.go:156-161, 126-128)
DispatcherStopWorker ==
    /\ dispatcher.pc = "stopping"
    /\ ~StopLoopDone
    /\ workerPool # << >>
    /\ worker' = [worker EXCEPT ![Head(workerPool)].pc = "exited"]
    /\ workerPool' = Received(workerPool)
    /\ dispatcher' = [dispatcher EXCEPT !.i = @ + 1]
    /\ UNCHANGED <<serverVars, jobQueue, wg, ncpu, job, client>>

\* d.stop <- struct{}{} is received by Release, which returns; the dispatcher
\* returns (file_storage.go:163-164, 236)
DispatcherExit ==
    /\ dispatcher.pc = "stopping"
    /\ StopLoopDone
    /\ client.pc = "ack"
    /\ dispatcher' = [dispatcher EXCEPT !.pc = "exited"]
    /\ client' = [client EXCEPT !.pc = "released", !.ret = "Release"]
    /\ UNCHANGED <<serverVars, jobQueue, wg, ncpu, workerPool, worker, job>>

\* NewJobPool(jobQueueLen) on a host with cpus processors
\* (file_storage.go:199-218, 169-183)
InitPool ==
    /\ modules = << >>
    /\ started = [x \in Inst |-> FALSE]
    /\ configured = {}
    /\ lastOk = [x \in Inst |-> "none"]
    /\ nextInst = 1
    /\ proc = "running"
    /\ mu = FALSE
    /\ ctxCancelled = FALSE
    /\ load = LoadIdle
    /\ fan = FanIdle
    /\ jobs = [id \in Ids |-> NoJob]
    /\ errorsQueue = << >>
    /\ call = CallIdle
    /\ handler = HandlerIdle
    /\ restart = RestartIdle
    /\ watch = {}
    /\ jobQueue = << >>
    /\ wg = 0
    /\ \E cpus \in 1..MaxCPU, jobQueueLen \in 0..MaxQueue, barrier \in BOOLEAN :
        /\ ncpu = cpus
        /\ client = [ClientIdle EXCEPT !.cap = jobQueueLen, !.barrier = barrier,
                          !.numWorkers = NumWorkersOn(cpus, jobQueueLen)]
        /\ worker = [w \in 1..NumWorkersOn(cpus, jobQueueLen) |->
                         [pc |-> "register", job |-> 0]]
    /\ workerPool = << >>
    /\ dispatcher = DispatcherIdle
    /\ job = [j \in 1..MaxJobs |-> NewJob]
    /\ NoExec
    /\ NoTask

NextPool ==
    \/ \E w \in DOMAIN worker : WorkerRegister(w)
    \/ DispatcherReceive
    \/ DispatcherHandOff
    \/ \E w \in DOMAIN worker : WorkerJobReturns(w)
    \/ AddJob
    \/ AddJobSend
    \/ WaitAll
    \/ WaitAllDone
    \/ Release
    \/ DispatcherStop
    \/ DispatcherStopWorker
    \/ DispatcherExit

SpecPool == InitPool /\ [][NextPool]_vars

\* ---------------------------------------------------------------- TasksExecutor
\* One TasksExecutor without monitoring, a goroutine that submits work items
\* (numbered in the order of their submission) and a goroutine that calls
\* Run, Break, BreakAndWait and Terminate. The k-th Run starts the k-th
\* executionCycle, whose deferred close is that of the k-th finishChan.
nonExecVars == <<modules, started, configured, lastOk, nextInst, proc, mu,
                 ctxCancelled, load, fan, jobs, jobQueue, errorsQueue, wg, call,
                 handler, restart, watch, poolVars, taskVars>>

Ops == {"Execute", "ExecuteAnyway", "ExecuteAndWait", "ExecuteAndWaitError"}
NewTask == [st |-> "new", op |-> "none", err |-> Nil, runs |-> 0, at |-> 0]
TaskErrs == {Nil, <<"task failed">>}

\* managedObject.IsStoped (async_task.go:44-51)
IsStopedNever == FALSE
IsStoped == executor.breakChan

\* a send on ptr.tasks finds room in the buffer of the channel
HasRoomAlways == TRUE
HasRoom == Len(tasks) < executor.cap

\* the executionCycle goroutines that wait in the select of the main loop
Parked == {g \in DOMAIN cycle : cycle[g].pc = "select"}

\* the IsStoped test that opens Execute and ExecuteAnyway, and through
\* Execute the two waiting variants (async_task.go:162-164, 176-178, 191, 207)
Submit(op) ==
    /\ submitter.pc = "idle"
    /\ submitter.n < MaxItems
    /\ LET k == submitter.n + 1 IN
       IF IsStoped
       THEN /\ submitter' = [SubmitterIdle EXCEPT !.op = op, !.n = k, !.ret = ErrStopped]
            /\ task' = [task EXCEPT ![k] = [@ EXCEPT !.st = "rejected", !.op = op]]
       ELSE /\ submitter' = [SubmitterIdle EXCEPT !.op = op, !.n = k,
                    !.pc = IF op = "ExecuteAnyway" THEN "block" ELSE "send"]
            /\ task' = [task EXCEPT ![k].op = op]
    /\ UNCHANGED <<nonExecVars, executor, tasks, cycle, ran, controller>>

\* where a submitter goes once its item was accepted (async_task.go:172,
\* 200, 215)
Accepted ==
    IF submitter.op \in {"ExecuteAndWait", "ExecuteAndWaitError"}
    THEN [submitter EXCEPT !.pc = "await"]
    ELSE [submitter EXCEPT !.pc = "idle", !.ret = Nil]

\* the item goes into the buffer of ptr.tasks; its record keeps the number
\* of Run calls made before
Enqueue(k) ==
    /\ tasks' = Append(tasks, k)
    /\ task' = [task EXCEPT ![k] = [@ EXCEPT !.st = "queued", !.at = executor.gen]]
    /\ UNCHANGED <<cycle, ran>>

\* the item goes straight to the receive of executionCycle g, which enters it
HandOver(k, g, pc) ==
    /\ cycle' = [cycle EXCEPT ![g] = [pc |-> pc, item |-> k]]
    /\ task' = [task EXCEPT ![k] = [@ EXCEPT !.st = "running", !.runs = @ + 1,
                                             !.at = executor.gen]]
    /\ ran' = Append(ran, k)
    /\ UNCHANGED tasks

\* the select of Execute (async_task.go:166-170): the send succeeds with room
\* in the buffer or with an executionCycle waiting to receive; otherwise the
\* default branch returns the queue-full error
ExecuteSend ==
    /\ submitter.pc = "send"
    /\ LET k == submitter.n IN
       \/ /\ HasRoom
          /\ Enqueue(k)
          /\ submitter' = Accepted
       \/ /\ executor.cap = 0
          /\ \E g \in Parked : HandOver(k, g, "run")
          /\ submitter' = Accepted
       \/ /\ ~HasRoom
          /\ task' = [task EXCEPT ![k].st = "rejected"]
          /\ submitter' = [submitter EXCEPT !.pc = "idle", !.ret = ErrQueueFull]
          /\ UNCHANGED <<tasks, cycle, ran>>
    /\ UNCHANGED <<nonExecVars, executor, controller>>

\* the select of ExecuteAnyway, send branch (async_task.go:180-181): the
\* send blocks until there is room or a receiver, which may also be the
\* receive of the drain loop
AnywaySend ==
    /\ submitter.pc = "block"
    /\ LET k == submitter.n IN
       \/ /\ HasRoom
          /\ Enqueue(k)
       \/ /\ executor.cap = 0
          /\ \/ \E g \in Parked : HandOver(k, g, "run")
             \/ \E g \in DOMAIN cycle :
                   cycle[g].pc = "drain" /\ HandOver(k, g, "drainrun")
    /\ submitter' = [submitter EXCEPT !.pc = "idle", !.ret = Nil]
    /\ UNCHANGED <<nonExecVars, executor, controller>>

\* the context given to ExecuteAnyway is cancelled by its owner
CtxCancel ==
    /\ submitter.pc = "block"
    /\ ~submitter.ctxDone
    /\ submitter' = [submitter EXCEPT !.ctxDone = TRUE]
    /\ UNCHANGED <<nonExecVars, executor, tasks, cycle, task, ran, controller>>

\* ctx.Done() of the caller is closed
CtxDoneAlways == TRUE
CtxDone == submitter.ctxDone

\* the select of ExecuteAnyway, <-ctx.Done() branch (async_task.go:182-185)
AnywayCancelled ==
    /\ submitter.pc = "block"
    /\ CtxDone
    /\ task' = [task EXCEPT ![submitter.n].st = "dropped"]
    /\ submitter' = [submitter EXCEPT !.pc = "idle", !.ret = Nil]
    /\ UNCHANGED <<nonExecVars, executor, tasks, cycle, ran, controller>>

\* done or result holds a value: the wrapper sends it after task() returned
\* (async_task.go:191-194, 207-209)
SignalledEarly(k) == task[k].st \in {"running", "done"}
Signalled(k) == task[k].st = "done"

\* <-done and <-result (async_task.go:200-201, 215)
AwaitReturns ==
    /\ submitter.pc = "await"
    /\ Signalled(submitter.n)
    /\ submitter' = [submitter EXCEPT !.pc = "idle",
            !.ret = IF submitter.op = "ExecuteAndWaitError"
                    THEN task[submitter.n].err ELSE Nil]
    /\ UNCHANGED <<nonExecVars, executor, tasks, cycle, task, ran, controller>>

\* the item a receive on ptr.tasks yields: the oldest one in the buffer
ReceivedLast(q) == q[Len(q)]
ReceivedTask(q) == Head(q)

\* the main loop receives an item and calls it (async_task.go:242-245)
CycleTake(g) ==
    /\ cycle[g].pc = "select"
    /\ tasks # << >>
    /\ LET k == ReceivedTask(tasks) IN
        /\ cycle' = [cycle EXCEPT ![g] = [pc |-> "run", item |-> k]]
        /\ task' = [task EXCEPT ![k] = [@ EXCEPT !.st = "running", !.runs = @ + 1]]
        /\ ran' = Append(ran, k)
    /\ tasks' = Tail(tasks)
    /\ UNCHANGED <<nonExecVars, executor, submitter, controller>>

\* the main loop receives from the closed breakChan and returns into the
\* deferred function, which reads ptr.terminate (async_task.go:246-247,
\* 224-227)
CycleBreak(g) ==
    /\ cycle[g].pc = "select"
    /\ executor.breakChan
    /\ cycle' = [cycle EXCEPT ![g].pc = IF executor.terminate THEN "finish"
                                        ELSE "drain"]
    /\ UNCHANGED <<nonExecVars, executor, tasks, task, ran, submitter, controller>>

\* the item called by the main loop or by the drain loop returns; the
\* wrappers of the waiting variants then fill done or result
\* (async_task.go:191-194, 207-209)
CycleTaskReturns(g) ==
    /\ cycle[g].pc \in {"run", "drainrun"}
    /\ LET k == cycle[g].item IN
       \E e \in (IF task[k].op = "ExecuteAndWaitError" THEN TaskErrs ELSE {Nil}) :
           task' = [task EXCEPT ![k] = [@ EXCEPT !.st = "done", !.err = e]]
    /\ cycle' = [cycle EXCEPT ![g] = [pc |-> IF cycle[g].pc = "run" THEN "select"
                                             ELSE "drain", item |-> 0]]
    /\ UNCHANGED <<nonExecVars, executor, tasks, ran, submitter, controller>>

\* one turn of the drain loop (async_task.go:228-237)
CycleDrain(g) ==
    /\ cycle[g].pc = "drain"
    /\ IF tasks # << >>
       THEN LET k == ReceivedTask(tasks) IN
            /\ cycle' = [cycle EXCEPT ![g] = [pc |-> "drainrun", item |-> k]]
            /\ task' = [task EXCEPT ![k] = [@ EXCEPT !.st = "running",
                                                     !.runs = @ + 1]]
            /\ ran' = Append(ran, k)
            /\ tasks' = Tail(tasks)
       ELSE /\ cycle' = [cycle EXCEPT ![g].pc = "finish"]
            /\ UNCHANGED <<tasks, task, ran>>
    /\ UNCHANGED <<nonExecVars, executor, submitter, controller>>

\* the deferred close(ptr.finishChan) (async_task.go:221)
CycleFinish(g) ==
    /\ cycle[g].pc = "finish"
    /\ cycle' = [cycle EXCEPT ![g].pc = "exited"]
    /\ executor' = [executor EXCEPT !.finishChan = @ \cup {g}]
    /\ UNCHANGED <<nonExecVars, tasks, task, ran, submitter, controller>>

\* Run (async_task.go:145-152, 26-29): new channels and a new executionCycle
Run ==
    /\ controller.pc = "idle"
    /\ executor.gen < MaxRuns
    /\ executor' = [executor EXCEPT !.gen = @ + 1, !.breakChan = FALSE]
    /\ cycle' = Append(cycle, [pc |-> "select", item |-> 0])
    /\ UNCHANGED <<nonExecVars, tasks, task, ran, submitter, controller>>

\* Break (async_task.go:31-35); one goroutine makes all the shutdown calls,
\* so the test and the close are one step
Break ==
    /\ controller.pc = "idle"
    /\ executor' = [executor EXCEPT !.breakChan = TRUE]
    /\ UNCHANGED <<nonExecVars, tasks, cycle, task, ran, submitter, controller>>

\* BreakAndWait (async_task.go:37-42): on an open breakChan it closes it and
\* waits for the present finishChan, otherwise it returns at once
BreakAndWait ==
    /\ controller.pc = "idle"
    /\ IF IsStoped
       THEN UNCHANGED <<executor, controller>>
       ELSE /\ executor' = [executor EXCEPT !.breakChan = TRUE]
            /\ controller' = [controller EXCEPT !.pc = "wait", !.gen = executor.gen]
    /\ UNCHANGED <<nonExecVars, tasks, cycle, task, ran, submitter>>

\* <-ptr.finishChan (async_task.go:40)
BreakAndWaitReturns ==
    /\ controller.pc = "wait"
    /\ controller.gen \in executor.finishChan
    /\ controller' = [controller EXCEPT !.pc = "idle"]
    /\ UNCHANGED <<nonExecVars, executor, tasks, cycle, task, ran, submitter>>

\* TasksExecutor.Terminate (async_task.go:154-159); the caller keeps for the
\* record what was queued when it closed breakChan
ExecutorTerminate ==
    /\ controller.pc = "idle"
    /\ IF IsStoped
       THEN UNCHANGED <<executor, controller>>
       ELSE /\ executor' = [executor EXCEPT !.terminate = TRUE, !.breakChan = TRUE]
            /\ controller' = [controller EXCEPT !.queued = tasks]
    /\ UNCHANGED <<nonExecVars, tasks, cycle, task, ran, submitter>>

\* NewTasksExecutor(queueSize, nil) (async_task.go:133-139)
InitExec ==
    /\ modules = << >>
    /\ started = [x \in Inst |-> FALSE]
    /\ configured = {}
    /\ lastOk = [x \in Inst |-> "none"]
    /\ nextInst = 1
    /\ proc = "running"
    /\ mu = FALSE
    /\ ctxCancelled = FALSE
    /\ load = LoadIdle
    /\ fan = FanIdle
    /\ jobs = [id \in Ids |-> NoJob]
    /\ jobQueue = << >>
    /\ errorsQueue = << >>
    /\ wg = 0
    /\ call = CallIdle
    /\ handler = HandlerIdle
    /\ restart = RestartIdle
    /\ watch = {}
    /\ NoPool
    /\ NoTask
    /\ \E queueSize \in 0..MaxCap : executor = NewExecutor(queueSize)
    /\ tasks = << >>
    /\ cycle = << >>
    /\ task = [k \in 1..MaxItems |-> NewTask]
    /\ ran = << >>
    /\ submitter = SubmitterIdle
    /\ controller = ControllerIdle

NextExec ==
    \/ \E op \in Ops : Submit(op)
    \/ ExecuteSend
    \/ AnywaySend
    \/ CtxCancel
    \/ AnywayCancelled
    \/ AwaitReturns
    \/ \E g \in DOMAIN cycle : CycleTake(g)
    \/ \E g \in DOMAIN cycle : CycleBreak(g)
    \/ \E g \in DOMAIN cycle : CycleTaskReturns(g)
    \/ \E g \in DOMAIN cycle : CycleDrain(g)
    \/ \E g \in DOMAIN cycle : CycleFinish(g)
    \/ Run
    \/ Break
    \/ BreakAndWait
    \/ BreakAndWaitReturns
    \/ ExecutorTerminate

SpecExec == InitExec /\ [][NextExec]_vars

\* ---------------------------------------------------------------- tasks
\* One asyncTask or repeatableTask, executed once, with several goroutines
\* that call Break and BreakAndWait on it. A close of the closed breakChan
\* panics; the model counts the closes and stops at the second one.
nonTaskVars == <<modules, started, configured, lastOk, nextInst, proc, mu,
                 ctxCancelled, load, fan, jobs, jobQueue, errorsQueue, wg, call,
                 handler, restart, watch, poolVars, execVars>>

Crashed == mobj.closes > 1

\* managedObject.IsStoped on the task (async_task.go:44-51)
TaskStoped == mobj.breakChan

\* what `if !ptr.IsStoped()` lets a caller do next (async_task.go:32, 38):
\* go on to the close, or return at once
AfterTest(stopped) == IF stopped THEN "idle" ELSE "close"

\* Break and BreakAndWait up to the IsStoped test (async_task.go:31-32, 37-38)
CallBreak(c, op) ==
    /\ ~Crashed
    /\ callers[c].pc = "idle"
    /\ callers[c].calls < MaxCalls
    /\ LET to == AfterTest(TaskStoped) IN
       callers' = [callers EXCEPT ![c] =
                     [pc |-> to, op |-> op, calls |-> @.calls + 1,
                      returned |-> IF to = "idle" THEN @.returned + 1
                                   ELSE @.returned]]
    /\ UNCHANGED <<nonTaskVars, mobj, body, monitor>>

\* close(ptr.breakChan) (async_task.go:33, 39); Break returns after it,
\* BreakAndWait goes on to <-ptr.finishChan
CloseBreak(c) ==
    /\ ~Crashed
    /\ callers[c].pc = "close"
    /\ mobj' = [mobj EXCEPT !.breakChan = TRUE, !.closes = @ + 1]
    /\ callers' = [callers EXCEPT ![c] =
                    IF @.op = "BreakAndWait" THEN [@ EXCEPT !.pc = "wait"]
                    ELSE [@ EXCEPT !.pc = "idle", !.returned = @ + 1]]
    /\ UNCHANGED <<nonTaskVars, body, monitor>>

\* <-ptr.finishChan (async_task.go:40)
WaitFinish(c) ==
    /\ ~Crashed
    /\ callers[c].pc = "wait"
    /\ mobj.finishChan
    /\ callers' = [callers EXCEPT ![c] = [@ EXCEPT !.pc = "idle",
                                                  !.returned = @ + 1]]
    /\ UNCHANGED <<nonTaskVars, mobj, body, monitor>>

\* asyncTask.Execute and repeatableTask.Execute start the goroutine; the
\* repeatable one makes its timer and calls the body (async_task.go:71-72,
\* 98-103)
TaskExecute ==
    /\ ~Crashed
    /\ body.pc = "none"
    /\ body' = [body EXCEPT !.pc = "task"]
    /\ UNCHANGED <<nonTaskVars, mobj, callers, monitor>>

\* the body of an asyncTask returns, having seen the closed breakChan or
\* having run to its end (async_task.go:73)
AsyncBodyReturns ==
    /\ ~Crashed
    /\ body.kind = "async"
    /\ body.pc = "task"
    /\ body' = [body EXCEPT !.pc = "closing"]
    /\ UNCHANGED <<nonTaskVars, mobj, callers, monitor>>

\* close(ptr.finishChan) of the asyncTask (async_task.go:74)
AsyncFinish ==
    /\ ~Crashed
    /\ body.kind = "async"
    /\ body.pc = "closing"
    /\ body' = [body EXCEPT !.pc = "finished"]
    /\ mobj' = [mobj EXCEPT !.finishChan = TRUE]
    /\ UNCHANGED <<nonTaskVars, callers, monitor>>

\* the timer of the repeatableTask runs out: a value is put into timer.C;
\* fired tells that this happened since the timer was last set
TimerFires ==
    /\ ~Crashed
    /\ body.kind = "repeatable"
    /\ body.pc \in {"task", "check", "reset"}
    /\ ~body.fired
    /\ body' = [body EXCEPT !.fired = TRUE, !.timerC = TRUE]
    /\ UNCHANGED <<nonTaskVars, mobj, callers, monitor>>

\* one invocation of the body of the repeatableTask returns
\* (async_task.go:103)
RepeatBodyReturns ==
    /\ ~Crashed
    /\ body.kind = "repeatable"
    /\ body.pc = "task"
    /\ body' = [body EXCEPT !.pc = "check"]
    /\ UNCHANGED <<nonTaskVars, mobj, callers, monitor>>

\* the select after the invocation (async_task.go:105-112) and, when it
\* returns, the deferred close(ptr.finishChan) (async_task.go:100)
RepeatCheck ==
    /\ ~Crashed
    /\ body.kind = "repeatable"
    /\ body.pc = "check"
    /\ IF body.timerC \/ TaskStoped
       THEN /\ body' = [body EXCEPT !.pc = "finished"]
            /\ mobj' = [mobj EXCEPT !.finishChan = TRUE]
       ELSE /\ body' = [body EXCEPT !.pc = "reset"]
            /\ UNCHANGED mobj
    /\ UNCHANGED <<nonTaskVars, callers, monitor>>

\* what timer.Reset leaves in timer.C when the timer ran out after the
\* select and its value was not received: the value stays in the channel
\* with the timers of Go before 1.23 and is dropped with the later ones
ResetLeaves(timerC) == IF timerC THEN {TRUE, FALSE} ELSE {FALSE}

\* timer.Reset(ptr.timeout) and the next invocation (async_task.go:111, 103)
RepeatReset ==
    /\ ~Crashed
    /\ body.kind = "repeatable"
    /\ body.pc = "reset"
    /\ \E v \in ResetLeaves(body.timerC) :
         body' = [body EXCEPT !.pc = "task", !.fired = FALSE, !.timerC = v]
    /\ UNCHANGED <<nonTaskVars, mobj, callers, monitor>>

\* NewAsyncTask or NewRepeatableTask (async_task.go:64-69, 90-96)
InitTask ==
    /\ modules = << >>
    /\ started = [x \in Inst |-> FALSE]
    /\ configured = {}
    /\ lastOk = [x \in Inst |-> "none"]
    /\ nextInst = 1
    /\ proc = "running"
    /\ mu = FALSE
    /\ ctxCancelled = FALSE
    /\ load = LoadIdle
    /\ fan = FanIdle
    /\ jobs = [id \in Ids |-> NoJob]
    /\ jobQueue = << >>
    /\ errorsQueue = << >>
    /\ wg = 0
    /\ call = CallIdle
    /\ handler = HandlerIdle
    /\ restart = RestartIdle
    /\ watch = {}
    /\ NoPool
    /\ NoExec
    /\ mobj = NewManagedObject
    /\ callers = [c \in Callers |-> CallerIdle]
    /\ \E kind \in {"async", "repeatable"} : body = [NoBody EXCEPT !.kind = kind]
    /\ monitor = NoMonitor

NextTask ==
    \/ \E c \in Callers, op \in {"Break", "BreakAndWait"} : CallBreak(c, op)
    \/ \E c \in Callers : CloseBreak(c)
    \/ \E c \in Callers : WaitFinish(c)
    \/ TaskExecute
    \/ AsyncBodyReturns
    \/ AsyncFinish
    \/ TimerFires
    \/ RepeatBodyReturns
    \/ RepeatCheck
    \/ RepeatReset

SpecTask == InitTask /\ [][NextTask]_vars

\* ---------------------------------------------------------------- monitoring
\* A TasksExecutor made with monitoring parameters and a callback: Run
\* starts the monitoringCycle next to the executionCycle.
nonMonitorVars == <<modules, started, configured, lastOk, nextInst, proc, mu,
                    ctxCancelled, load, fan, jobs, jobQueue, errorsQueue, wg,
                    call, handler, restart, watch, poolVars, mobj, callers, body>>

\* Run with monitoringParams (async_task.go:145-152)
RunMonitored ==
    /\ controller.pc = "idle"
    /\ monitor.pc = "none"
    /\ executor.gen < MaxRuns
    /\ executor' = [executor EXCEPT !.gen = @ + 1, !.breakChan = FALSE]
    /\ cycle' = Append(cycle, [pc |-> "select", item |-> 0])
    /\ monitor' = [monitor EXCEPT !.pc = "select"]
    /\ UNCHANGED <<nonMonitorVars, tasks, task, ran, submitter, controller>>

\* `used := 100 * length / capacity` (async_task.go:267): the division of
\* Go integers, both operands not negative
Used(length, capacity) == (100 * length) \div capacity

\* the timer of the monitoringCycle runs out: the occupancy is computed and
\* the callback is called with it; the division by a capacity of 0 panics
\* (async_task.go:263-268)
MonitorTick ==
    /\ monitor.pc = "select"
    /\ monitor' = IF executor.cap = 0 THEN [monitor EXCEPT !.pc = "panic"]
                  ELSE [pc |-> "callback", used |-> Used(Len(tasks), executor.cap)]
    /\ UNCHANGED <<nonMonitorVars, execVars>>

\* the callback returns and the timer is set again (async_task.go:268-269)
MonitorCallbackReturns ==
    /\ monitor.pc = "callback"
    /\ monitor' = [monitor EXCEPT !.pc = "select"]
    /\ UNCHANGED <<nonMonitorVars, execVars>>

\* the monitoringCycle receives from the closed breakChan (async_task.go:271-272)
MonitorBreak ==
    /\ monitor.pc = "select"
    /\ IsStoped
    /\ monitor' = [monitor EXCEPT !.pc = "exited"]
    /\ UNCHANGED <<nonMonitorVars, execVars>>

NextMon ==
    \/ Submit("Execute")
    \/ ExecuteSend
    \/ RunMonitored
    \/ \E g \in DOMAIN cycle : CycleTake(g)
    \/ \E g \in DOMAIN cycle : CycleTaskReturns(g)
    \/ \E g \in DOMAIN cycle : CycleBreak(g)
    \/ \E g \in DOMAIN cycle : CycleDrain(g)
    \/ \E g \in DOMAIN cycle : CycleFinish(g)
    \/ Break
    \/ MonitorTick
    \/ MonitorCallbackReturns
    \/ MonitorBreak

\* NewTasksExecutor(queueSize, params) with a callback, then Run
SpecMon == InitExec /\ [][NextMon]_vars

\* ================================================================ claims
\* whether message msg contains the tokens of sub, in a row
Contains(msg, sub) ==
    \E k \in 0..(Len(msg) - Len(sub)) : SubSeq(msg, k + 1, k + Len(sub)) = sub

\* the job of module id failed
JobFailed(id) == jobs[id].st = "done" /\ jobs[id].res # Nil

\* C1: when Start() or Stop() has returned, the job of every registered module
\* has run, exactly once, whatever the other jobs returned.
C1_AllAttempted ==
    fan.pc = "done" =>
        \A id \in Ids :
            IF id \in DOMAIN modules
            THEN jobs[id].st = "done" /\ jobs[id].runs = 1
            ELSE jobs[id].st = "none" /\ jobs[id].runs = 0

\* a Start() has returned after one module's start() failed and the start()
\* of another module succeeded
C1_Witness ==
    /\ fan.pc = "done" /\ fan.kind = "start"
    /\ \E a, b \in DOMAIN modules :
        /\ jobs[a].res \in ModuleErrs(a)
        /\ jobs[b].st = "done" /\ jobs[b].res = Nil /\ jobs[b].runs = 1

\* C2: Start() returns an error iff some start job failed, and the message
\* names the id of every module whose job failed.
C2_ErrorNamesEveryFailure ==
    fan.pc = "done" /\ fan.kind = "start" =>
        /\ (fan.res # Nil) <=> (\E id \in DOMAIN modules : JobFailed(id))
        /\ \A id \in DOMAIN modules : JobFailed(id) => Names(fan.res, id)

\* C3: when Start() has returned (and no RestartModule has been called), the
\* process runs, every module whose start() succeeded is started, and every
\* module whose job failed has the flag it had before the call: set when the
\* job found it started already, clear when the job called start() and that
\* failed.
C3_StartOutcome ==
    fan.pc = "done" /\ fan.kind = "start" /\ restart.pc = "idle" =>
        /\ proc = "running"
        /\ \A id \in DOMAIN modules :
            /\ jobs[id].res = Nil => started[jobs[id].inst]
            /\ jobs[id].res # Nil =>
                 (started[jobs[id].inst] <=> jobs[id].res = ErrAlreadyStarted(id))

\* B.start() failed, A ended started, the caller got the error
C3_Witness ==
    /\ fan.pc = "done" /\ fan.kind = "start" /\ restart.pc = "idle"
    /\ "A" \in DOMAIN modules /\ "B" \in DOMAIN modules
    /\ jobs["B"].res \in ModuleErrs("B") /\ ~started[jobs["B"].inst]
    /\ jobs["A"].res = Nil /\ started[jobs["A"].inst]
    /\ fan.res # Nil /\ proc = "running"

\* C4: a start job calls module.Start() only when IsStarted() answered false,
\* a stop job calls module.Stop() only when IsStarted() answered true; in the
\* other case the job ends with "already started" ("already stopped"), no
\* module changes state and the process goes on; the error list that Start()
\* or Stop() returns holds that error.
C4_AlreadyStartedStopped ==
    [][ /\ \A id \in Ids :
            LET isStart == fan.kind = "start"
                x == jobs[id].inst
                already == IF isStart THEN ErrAlreadyStarted(id)
                           ELSE ErrAlreadyStopped(id)
            IN  jobs[id].st = "run" /\ jobs'[id].st # "run" =>
                    IF started[x] = isStart
                    THEN /\ jobs'[id].st = "done"
                         /\ jobs'[id].res = already
                         /\ UNCHANGED <<started, proc>>
                    ELSE jobs'[id].st = "incall"
        /\ fan.pc = "wait" /\ fan'.pc = "done" =>
            \A id \in DOMAIN modules :
                jobs[id].res \in {ErrAlreadyStarted(id), ErrAlreadyStopped(id)} =>
                    Contains(fan'.res, <<"[">> \o jobs[id].res \o <<"]">>)
      ]_vars

\* a second Start() has returned with "already started" for a started module
C4_Witness ==
    /\ fan.pc = "done" /\ fan.kind = "start" /\ proc = "running"
    /\ \E id \in DOMAIN modules :
        /\ jobs[id].res = ErrAlreadyStarted(id)
        /\ started[jobs[id].inst]
        /\ Contains(fan.res, <<"[">> \o ErrAlreadyStarted(id) \o <<"]">>)

\* C5: the started flag of a module is set iff its last successful lifecycle
\* call was start().
C5_StartedFlag ==
    \A x \in Inst : started[x] <=> lastOk[x] = "start"

\* a module was started, stopped and started again, and a later start failed
C5_Witness ==
    \E id \in DOMAIN modules :
        /\ started[modules[id]] /\ lastOk[modules[id]] = "start"
        /\ restart.pc = "done" /\ restart.inst = modules[id]
        /\ jobs[id].res = ErrAlreadyStarted(id)

\* C6: CallModule returns "not found" for an unregistered id, "is not started"
\* for a registered module that is not started, and otherwise calls DataHandler
\* of that module once with the message and returns what it returned; no step
\* of CallModule changes the registry or a module's flag.
C6_CallModule ==
    [][ /\ call.pc \in {"idle", "done"} /\ call' # call =>
            LET id == call'.id IN
            /\ id \notin DOMAIN modules =>
                 call'.pc = "done" /\ call'.res = ErrNotFound(id)
            /\ id \in DOMAIN modules /\ ~started[modules[id]] =>
                 call'.pc = "done" /\ call'.res = ErrNotStarted(id)
            /\ id \in DOMAIN modules /\ started[modules[id]] =>
                 call'.pc = "forward" /\ call'.inst = modules[id]
            /\ handler'.calls = 0
            /\ UNCHANGED <<modules, started>>
        /\ call.pc = "forward" /\ call'.pc # "forward" =>
            /\ call'.pc = "done"
            /\ handler'.calls = 1
            /\ handler'.inst = call.inst /\ handler'.msg = call.msg
            /\ call'.res = handler'.ret
            /\ UNCHANGED <<modules, started>>
      ]_vars

\* a call was forwarded and returned the handler's error
C6_Witness ==
    /\ call.pc = "done" /\ handler.calls = 1
    /\ handler.ret \in HandlerErrs /\ call.res = handler.ret

\* C7: whenever DataHandler is invoked, the module is started.
C7_HandlerOnlyOnStarted ==
    [][ handler'.calls > handler.calls => started[handler'.inst] ]_vars

\* C8: LoadConfig fails with the empty-configuration error iff the raw list
\* is empty, then without a factory call or a change of the registry; a
\* non-empty list of disabled descriptors succeeds with an empty id list and
\* registers nothing.
C8_EmptyConfig ==
    load.pc = "done" =>
        /\ (load.err = ErrEmptyConfig) <=> (Len(load.cfg) = 0)
        /\ Len(load.cfg) = 0 => load.calls = 0 /\ modules = load.reg0
        /\ (Len(load.cfg) > 0 /\ \A k \in DOMAIN load.cfg : load.cfg[k].disable) =>
              /\ load.err = Nil /\ load.list = << >>
              /\ load.calls = 0 /\ modules = load.reg0

\* a list of two disabled descriptors was loaded into a non-empty registry
C8_Witness ==
    /\ load.pc = "done" /\ Len(load.cfg) = 2
    /\ \A k \in DOMAIN load.cfg : load.cfg[k].disable
    /\ load.err = Nil /\ DOMAIN modules # {}

\* the last enabled descriptor of cfg that names id
LastEnabled(cfg, id) ==
    CHOOSE k \in DOMAIN cfg :
        /\ cfg[k].id = id /\ ~cfg[k].disable
        /\ \A j \in DOMAIN cfg : (cfg[j].id = id /\ ~cfg[j].disable) => j <= k

\* C9: after a successful LoadConfig every id of an enabled descriptor maps to
\* the module created for the last enabled descriptor with that id.
C9_LastWriteWins ==
    load.pc = "done" /\ load.err = Nil =>
        \A k \in DOMAIN load.cfg :
            ~load.cfg[k].disable =>
                LET id == load.cfg[k].id IN
                /\ id \in DOMAIN modules
                /\ modules[id] = load.made[LastEnabled(load.cfg, id)]

\* a list naming one id in two enabled descriptors was loaded
C9_Witness ==
    /\ load.pc = "done" /\ load.err = Nil /\ Len(load.cfg) = 2
    /\ load.cfg[1].id = load.cfg[2].id
    /\ ~load.cfg[1].disable /\ ~load.cfg[2].disable
    /\ modules[load.cfg[1].id] = load.made[2]

\* C10: when the factory or the module's LoadConfig fails for a descriptor,
\* the error names its id and the module created for it is not registered.
C10_FailedModuleNotRegistered ==
    load.pc = "done" /\ load.failedAt # 0 =>
        /\ Names(load.err, load.cfg[load.failedAt].id)
        /\ load.made[load.failedAt] \notin Range(modules)

\* C11: when Terminate has run the stop job of every registered module, the
\* process is ended, with every stop() successful as with some stop() failed.
C11_TerminateFatal ==
    fan.pc = "done" /\ fan.kind = "terminate" =>
        /\ proc = "fatal"
        /\ \A id \in DOMAIN modules : jobs[id].st = "done" /\ jobs[id].runs = 1

\* Terminate ended the process after every stop() had succeeded
C11_Witness ==
    /\ fan.pc = "done" /\ fan.kind = "terminate" /\ fan.res = Nil
    /\ proc = "fatal"
    /\ \E id \in DOMAIN modules : lastOk[modules[id]] = "stop"

\* C13: RestartModule on a registered module calls stop() and, only after
\* stop() has returned without error, start(); a failed stop() ends the process
\* with no start() call and the module's flag as it was; a failed start() ends
\* the process; a RestartModule that has returned with the process running has
\* made both calls successfully.
C13_RestartSequence ==
    [][ /\ restart.pc = "stop" /\ restart'.pc # "stop" =>
            \/ /\ restart'.pc = "start"
               /\ restart'.calls = <<"stop", "start">>
               /\ lastOk'[restart.inst] = "stop" /\ proc' = "running"
            \/ /\ restart'.pc = "done"
               /\ restart'.calls = <<"stop">>
               /\ lastOk'[restart.inst] # "stop" \/ lastOk[restart.inst] = "stop"
               /\ proc' = "fatal" /\ UNCHANGED started
        /\ restart.pc = "start" /\ restart'.pc # "start" =>
            /\ restart'.pc = "done" /\ restart'.calls = <<"stop", "start">>
            /\ \/ proc' = "fatal" /\ UNCHANGED started
               \/ proc' = "running" /\ started'[restart.inst]
                  /\ lastOk'[restart.inst] = "start"
        /\ restart'.pc = "start" /\ restart.pc # "start" => restart.pc = "stop"
      ]_vars

\* stop() failed: the process ended and start() was never called
C13_Witness ==
    /\ restart.pc = "done" /\ restart.inst # NoModule
    /\ restart.calls = <<"stop">> /\ proc = "fatal"

\* start() and stop() calls in flight on instance x
InFlight(x) ==
    Cardinality({id \in Ids : jobs[id].st = "incall" /\ jobs[id].inst = x})
    + (IF restart.pc \in {"stop", "start"} /\ restart.inst = x THEN 1 ELSE 0)

\* C17: no module has two start() or stop() calls in flight.
C17_OneCallInFlight ==
    \A x \in Inst : InFlight(x) <= 1

\* C14: a RestartModule whose stop() and start() took longer than the timeout
\* ends the process: the check armed by that call finds the module late and
\* raises the fatal termination.
C14_SlowStartFatal ==
    [][\A w \in watch : w \notin watch' /\ w.late => proc' = "fatal"]_vars

\* C15: the module's state is read timeout after RestartModule was called: a
\* module that is not started at that moment ends the process, whatever the
\* call itself is doing, and neither that moment nor the watchdog touches the
\* module.
C15_StateReadAtDeadline ==
    [][ /\ (restart'.late /\ ~restart.late /\ ~started[restart.inst]
               => proc' = "fatal")
        /\ ((restart'.late /\ ~restart.late) \/ (\E w \in watch : w \notin watch')
               => UNCHANGED moduleVars)
      ]_vars

\* C16: a Terminate that has run the stop jobs leaves a watchdog armed, which
\* will look at the module's state after the timeout.
C16_TerminateWatchdog ==
    fan.pc = "done" /\ fan.kind = "terminate" =>
        \E w \in watch : w.op = "terminate"

\* C12: while a Terminate called by a module from inside its start() or
\* stop() is pending and the process still runs, something can move: the
\* Terminate can take the registry guard, or the fan-out it was called from
\* can take a step.
C12_TerminateEnds ==
    proc = "running" /\ (\E id \in Ids : jobs[id].st = "terminate") =>
        \/ \E id \in Ids : TerminateCanLock(id)
        \/ ENABLED NextTerm

\* C18: LoadConfig, Start and Stop exclude each other: the registry is
\* written only while no Start() or Stop() is between its first read of the
\* registry and its return, and a Start() or Stop() reads the registry's size
\* only while no LoadConfig is in progress.
C18_Serialized ==
    [][ /\ modules' # modules => fan.pc \in {"idle", "done"}
        /\ fan'.pc = "lock" /\ fan.pc # "lock" => load.pc \in {"idle", "done"}
      ]_vars

\* C19: a Start() over N modules whose start() calls each wait until the
\* start() of every module has been entered does not get stuck: while the
\* caller waits in WaitAll for the N jobs of a pool made by NewJobPool(N),
\* some goroutine of the pool can take a step.
C19_AllJobsConcurrent ==
    /\ client.barrier /\ client.cap >= 1 /\ client.added = client.cap
    /\ client.pc = "wait" /\ wg > 0
    => ENABLED NextPool

\* C20: WaitAll returns only when every job added before the call has
\* finished, and it can return at once when none of them is outstanding.
C20_WaitAll ==
    /\ [][client.pc = "wait" /\ client'.pc # "wait" =>
            \A j \in 1..client.added : job[j].st = "finished"]_vars
    /\ [](client.pc = "wait" /\ (\A j \in 1..client.added : job[j].st = "finished")
            => ENABLED WaitAllDone)

\* WaitAll has returned after two jobs were added and have run
C20_Witness ==
    /\ client.ret = "WaitAll" /\ client.added = 2
    /\ \A j \in 1..2 : job[j].st = "finished" /\ job[j].runs = 1

\* workers that are inside job j
RunningOn(j) == {w \in DOMAIN worker : worker[w].pc = "job" /\ worker[w].job = j}

\* C21: a worker is registered free at most once and only while it waits in
\* its select; a job is handed only to a registered free worker; a job that
\* is running is inside exactly one worker, no other job is inside that
\* worker, and no job is entered twice.
C21_OneToOne ==
    /\ \A k, l \in DOMAIN workerPool : k # l => workerPool[k] # workerPool[l]
    /\ \A k \in DOMAIN workerPool : worker[workerPool[k]].pc = "select"
    /\ \A w \in DOMAIN worker :
        worker[w].pc = "job" =>
            /\ worker[w].job \in DOMAIN job
            /\ job[worker[w].job].st = "running" /\ job[worker[w].job].w = w
    /\ \A j \in DOMAIN job :
        /\ job[j].runs <= 1
        /\ job[j].st = "running" => Cardinality(RunningOn(j)) = 1
        /\ job[j].st \in {"running", "finished"} <=> job[j].runs = 1
        /\ job[j].st # "running" => RunningOn(j) = {}
    /\ dispatcher.pc = "worker" => job[dispatcher.job].st = "queued"
    /\ \A k \in DOMAIN jobQueue : job[jobQueue[k]].st = "queued"

\* one worker has run two jobs, one after the other, while a third job ran
\* on another worker
C21_Witness ==
    /\ job[1].st = "finished" /\ job[2].st = "finished" /\ job[3].st = "finished"
    /\ \E a, b, c \in 1..3 :
        /\ {a, b, c} = 1..3
        /\ job[a].w = job[b].w /\ job[c].w # job[a].w

\* Release has returned only with the dispatcher and every worker returned
ReleasedAfterAll ==
    client.pc = "released" =>
        /\ dispatcher.pc = "exited"
        /\ \A w \in DOMAIN worker : worker[w].pc = "exited"

\* C22, as claimed: Release returns only after the dispatcher and all workers
\* have returned, and while a Release is pending and the jobs that were
\* running when it was called have finished, some goroutine can step.
C22_Release ==
    /\ ReleasedAfterAll
    /\ client.pc \in {"release", "ack"}
          /\ (\A j \in client.running0 : job[j].st = "finished")
       => ENABLED NextPool

\* C22, amended: Release returns only after the dispatcher and all workers
\* have returned, and while a Release is pending and every job that is inside
\* a worker, whenever it was handed over, is able to return, some goroutine
\* can step.
C22_ReleaseAmended ==
    /\ ReleasedAfterAll
    /\ client.pc \in {"release", "ack"}
          /\ (\A w \in DOMAIN worker : worker[w].pc = "job" => JobMayReturn)
       => ENABLED NextPool

\* Release of a pool of two workers has returned; a job was running when it
\* was called
C22_Witness ==
    /\ client.pc = "released" /\ client.numWorkers = 2
    /\ client.running0 # {}
    /\ \A w \in DOMAIN worker : worker[w].pc = "exited"

Min(a, b) == IF a < b THEN a ELSE b
Max(a, b) == IF a < b THEN b ELSE a

\* C23, as claimed: the pool has min(max(1, P - 1), L) workers, at every time.
C23_WorkerCount ==
    Cardinality(DOMAIN worker) = Min(Max(1, ncpu - 1), client.cap)

\* C23, amended: the pool has max(1, min(P - 1, L)) workers, at every time.
C23_WorkerCountAmended ==
    /\ Cardinality(DOMAIN worker) = Max(1, Min(ncpu - 1, client.cap))
    /\ client.numWorkers = Cardinality(DOMAIN worker)

\* a pool made with queue length 0 has run a job on its one worker
C23_Witness ==
    /\ client.cap = 0 /\ DOMAIN worker = {1}
    /\ job[1].st = "finished" /\ job[1].w = 1

\* the select of Execute is taken by a caller that passed the IsStoped test
ExecuteSelects == submitter.pc = "send" /\ submitter' # submitter
QueueFullReturned == submitter'.pc = "idle" /\ submitter'.ret = ErrQueueFull

\* C24 (as stated): Execute fails with the queue-full error exactly when the
\* queue holds capacity-many items and shutdown had not begun at its test;
\* a failure leaves the queue unchanged; with fewer than capacity items
\* queued it succeeds and appends the item at the tail.
C24_QueueFull ==
    [][ExecuteSelects =>
         /\ QueueFullReturned <=> (Len(tasks) = executor.cap)
         /\ QueueFullReturned => tasks' = tasks
         /\ Len(tasks) < executor.cap =>
              ~QueueFullReturned /\ tasks' = Append(tasks, submitter.n)]_vars

\* C24 (amended): the queue-full error is returned only with capacity-many
\* items queued and leaves the queue unchanged; it is certain when the queue
\* is full and either the capacity is positive or no executionCycle waits to
\* receive; with capacity 0 a success hands the item to a waiting
\* executionCycle; with fewer than capacity items queued Execute succeeds
\* and appends the item at the tail.
C24_QueueFullAmended ==
    [][ExecuteSelects =>
         /\ QueueFullReturned => Len(tasks) = executor.cap /\ tasks' = tasks
         /\ (Len(tasks) = executor.cap /\ (executor.cap > 0 \/ Parked = {}))
              => QueueFullReturned
         /\ (~QueueFullReturned /\ executor.cap = 0) =>
              /\ Parked # {}
              /\ tasks' = tasks
              /\ ran' = Append(ran, submitter.n)
         /\ Len(tasks) < executor.cap =>
              ~QueueFullReturned /\ tasks' = Append(tasks, submitter.n)]_vars

C24_Witness ==
    /\ submitter.pc = "idle"
    /\ submitter.op = "Execute"
    /\ submitter.ret = ErrQueueFull
    /\ executor.cap > 0
    /\ Len(tasks) = executor.cap
    /\ ~IsStoped

\* a call of Execute, ExecuteAnyway, ExecuteAndWait or ExecuteAndWaitError
\* begins
CallBegins == submitter.pc = "idle" /\ submitter'.n = submitter.n + 1

\* C25: once shutdown of the executor has begun it stays begun, and every
\* call of Execute, ExecuteAnyway, ExecuteAndWait and ExecuteAndWaitError
\* that begins afterwards returns the stopped error, full queue or not, and
\* leaves the queue unchanged.
C25_StoppedRejects ==
    /\ [][IsStoped => IsStoped']_vars
    /\ [][(CallBegins /\ IsStoped) =>
            /\ submitter'.pc = "idle"
            /\ submitter'.ret = ErrStopped
            /\ tasks' = tasks
            /\ ran' = ran]_vars

\* an executionCycle gives its finish acknowledgment
Finishes == executor'.finishChan # executor.finishChan

\* C26: on a draining shutdown (Terminate was not called) an item leaves the
\* queue only from the head and by being executed, so the items queued when
\* shutdown is signalled are executed in FIFO order, and the queue is empty
\* when the executionCycle gives its finish acknowledgment.
C26_DrainedAtFinish ==
    /\ [][(tasks' # tasks /\ Len(tasks') <= Len(tasks)) =>
            /\ tasks # << >>
            /\ tasks' = Tail(tasks)
            /\ ran' = Append(ran, Head(tasks))]_vars
    /\ [][(Finishes /\ ~executor.terminate) => tasks = << >>]_vars

\* C27: after Terminate was called on the executor (the terminate flag is
\* set and breakChan is closed) none of the items that were queued at the
\* call begins to execute.
C27_TerminateDiscards ==
    [][(executor.terminate /\ IsStoped /\ ran' # ran) =>
         ran'[Len(ran')] \notin Range(controller.queued)]_vars

WaitOps == {"ExecuteAndWait", "ExecuteAndWaitError"}

\* C28: when ExecuteAndWait or ExecuteAndWaitError has returned, either it
\* returned the error of the submission (stopped, queue full) and its item
\* was neither queued nor run, or its item was run once and has finished,
\* and the call returned nil (ExecuteAndWait) or exactly the error the item
\* returned (ExecuteAndWaitError).
C28_WaitReturns ==
    (submitter.pc = "idle" /\ submitter.op \in WaitOps) =>
        LET k == submitter.n IN
        IF submitter.ret \in {ErrStopped, ErrQueueFull}
        THEN /\ task[k].runs = 0
             /\ task[k].st = "rejected"
             /\ k \notin Range(tasks)
             /\ k \notin Range(ran)
        ELSE /\ task[k].st = "done"
             /\ task[k].runs = 1
             /\ submitter.ret = IF submitter.op = "ExecuteAndWaitError"
                                THEN task[k].err ELSE Nil

C28_Witness ==
    /\ submitter.pc = "idle"
    /\ submitter.op = "ExecuteAndWaitError"
    /\ submitter.ret = <<"task failed">>
    /\ task[submitter.n].st = "done"

\* a caller of ExecuteAndWait or ExecuteAndWaitError waits for its item, which
\* was accepted into the queue after the last Run and is still queued
WaitsForQueued ==
    /\ submitter.pc = "await"
    /\ task[submitter.n].st = "queued"
    /\ task[submitter.n].at = executor.gen
    /\ executor.gen >= 1

\* C29: a caller of ExecuteAndWait or ExecuteAndWaitError whose item was
\* accepted into the queue of a running executor is never left waiting with
\* its item queued and every executionCycle gone: some executionCycle is
\* there to execute the item, whatever shutdown call was made meanwhile.
C29_WaiterServed ==
    WaitsForQueued => \E g \in DOMAIN cycle : cycle[g].pc # "exited"

Taken(k) == task[k].st \in {"queued", "running", "done"}
Dropped(k) ==
    /\ task[k].st = "dropped"
    /\ task[k].runs = 0
    /\ k \notin Range(tasks)
    /\ k \notin Range(ran)
AnywayReturned ==
    /\ submitter.pc = "idle"
    /\ submitter.op = "ExecuteAnyway"
    /\ submitter.ret # ErrStopped

\* C30: ExecuteAnyway that passed the IsStoped test returns nil, and only
\* once its item was enqueued (or taken by an executionCycle) or its context
\* was cancelled; it returns from a full queue that no executionCycle reads
\* only by the cancellation; an item given up on cancellation was not
\* enqueued and is never executed.
C30_ExecuteAnyway ==
    /\ [](AnywayReturned =>
            /\ submitter.ret = Nil
            /\ Taken(submitter.n) \/ (submitter.ctxDone /\ Dropped(submitter.n)))
    /\ [](\A k \in 1..MaxItems : task[k].st = "dropped" => Dropped(k))
    /\ [][(submitter.pc = "block" /\ submitter'.pc = "idle"
            /\ ~HasRoom /\ (executor.cap > 0 \/ cycle = << >>)) =>
              (submitter.ctxDone /\ tasks' = tasks /\ ran' = ran)]_vars

C30_Witness ==
    /\ AnywayReturned
    /\ Dropped(submitter.n)
    /\ executor.cap > 0
    /\ Len(tasks) = executor.cap
    /\ ~IsStoped

\* C33: Start, Stop, CallModule, RestartModule and Terminate leave the
\* registry as it is: the set of registered ids and the module each id
\* stands for never change after the load.
C33_RegistryKept ==
    [][modules' = modules]_vars

\* all of them have acted: a Stop() has returned, a restart ran stop() and
\* start(), and calls were answered for a known and for an unknown id
C33_Witness ==
    /\ fan.pc = "done" /\ fan.kind = "stop"
    /\ restart.pc = "done" /\ restart.calls = <<"stop", "start">>
    /\ call.pc = "done" /\ call.id \notin DOMAIN modules
    /\ DOMAIN modules # {}

\* a RestartModule call begins whose id is not in the registry
RestartUnknown ==
    /\ restart.pc \in {"idle", "done"}
    /\ restart' # restart
    /\ restart'.id \notin DOMAIN modules

\* C39: RestartModule with an id that is not registered calls stop() or
\* start() on no module, does not crash and does not end the process.
C39_UnknownIdLogged ==
    [][RestartUnknown =>
         /\ restart'.calls = << >>
         /\ proc' = "running"
         /\ started' = started]_vars

\* C40: the context is cancelled from the moment a Stop() is called, so
\* before any stop() of that call begins, and it is never un-cancelled,
\* whatever follows, a later Start() included.
C40_CtxCancelled ==
    /\ [][(fan'.kind = "stop" /\ fan' # fan) => ctxCancelled']_vars
    /\ [](\A id \in Ids : (fan.kind = "stop" /\ jobs[id].st # "none") => ctxCancelled)
    /\ [][ctxCancelled => ctxCancelled']_vars

\* after a Stop() a later Start() has brought a module back to started, with
\* the context still cancelled
C40_Witness ==
    /\ ctxCancelled
    /\ fan.kind = "start" /\ fan.pc = "done"
    /\ \E id \in DOMAIN modules : started[modules[id]] /\ lastOk[modules[id]] = "start"

\* the lifecycle of the executor: 0 Created, 1 Running, 2 Stopping, 3 Stopped
Lifecycle ==
    IF IsStoped
    THEN IF \A g \in DOMAIN cycle : cycle[g].pc = "exited" THEN 3 ELSE 2
    ELSE IF executor.gen = 0 THEN 0 ELSE 1

\* C34: the lifecycle of the executor only moves forward: once shutdown has
\* been signalled no step, a further Run() included, brings the executor back
\* to Created or Running, whether the signal came before or after Run().
C34_LifecycleForward ==
    [][Lifecycle' >= Lifecycle]_vars

Running == {k \in 1..MaxItems : task[k].st = "running"}

\* C35: on an executor whose Run() was called once at most one item is
\* being executed at any time, every item is executed at most once, and the
\* items are executed in the order in which they were enqueued (the numbers
\* of the executed items increase).
C35_OneLoopFifo ==
    executor.gen <= 1 =>
        /\ Cardinality(Running) <= 1
        /\ \A i, j \in DOMAIN ran : i < j => ran[i] < ran[j]
        /\ \A k \in 1..MaxItems : task[k].runs <= 1

\* two items that waited in the queue together were executed one after the
\* other by the one loop
C35_Witness ==
    /\ executor.gen = 1
    /\ ran = <<1, 2>>
    /\ task[1].at = 0 /\ task[2].at = 0
    /\ task[1].st = "done" /\ task[2].st = "running"

\* items for which Execute returned nil
Succeeded ==
    {k \in 1..MaxItems : task[k].op = "Execute"
                          /\ task[k].st \in {"queued", "running", "done"}}

\* C38: when an executor that was run once and shut down by Break or
\* BreakAndWait has given its finish acknowledgment, every item for which
\* Execute returned success has been executed exactly once.
C38_AcceptedExecuted ==
    (executor.gen = 1 /\ ~executor.terminate /\ 1 \in executor.finishChan) =>
        \A k \in Succeeded : task[k].st = "done" /\ task[k].runs = 1

\* C31: however many Break and BreakAndWait calls are made on a task, one
\* after the other or at the same time, breakChan is closed once and never
\* a second time.
C31_ClosedOnce ==
    mobj.closes <= 1

\* caller c returns from a BreakAndWait call on a task that was executed
WaitReturned(c) ==
    /\ callers'[c].returned = callers[c].returned + 1
    /\ callers'[c].op = "BreakAndWait"
    /\ body.pc # "none"

\* C32: whenever BreakAndWait returns on an executed task the task has given
\* its finish acknowledgment, also when the cancellation was requested by an
\* earlier Break.
C32_WaitedForFinish ==
    [][\A c \in Callers : WaitReturned(c) => mobj.finishChan]_vars

\* C37: at the check after an invocation the repeatable task exits, giving
\* its finish acknowledgment, exactly when cancellation was requested or the
\* timer ran out since it was last set; otherwise it invokes the body again;
\* an invocation is left only by the return of the body.
C37_RepeatExit ==
    /\ [][(body.kind = "repeatable" /\ body.pc = "check" /\ body'.pc # "check") =>
            /\ (body'.pc = "finished") <=> (TaskStoped \/ body.fired)
            /\ (body'.pc = "finished") <=> (mobj'.finishChan /\ ~mobj.finishChan)
            /\ body'.pc \in {"finished", "reset"}]_vars
    /\ [][(body.kind = "repeatable" /\ body.pc = "task" /\ body'.pc # "task")
            => body'.pc = "check"]_vars

\* C36: for every capacity and every queue length each tick of the
\* monitoring timer calls the callback with floor(100 * queued / capacity),
\* an integer in 0..100; the computation never fails.
C36_Occupancy ==
    [][(monitor.pc = "select" /\ monitor'.pc \notin {"select", "exited"}) =>
         \E q \in 0..100 :
            /\ monitor'.pc = "callback"
            /\ monitor'.used = q
            /\ q * executor.cap <= 100 * Len(tasks)
            /\ 100 * Len(tasks) < (q + 1) * executor.cap]_vars
====
